---- MODULE Spec2Model ----
(***************************************************************************)
(* The ERC-20 token chaincode of this repository, in its four variants:    *)
(*   "peer"  src/token-erc-20_peer.go  (src/token-erc-20.go is its first    *)
(*           293 lines), one ledger key per account and per allowance;     *)
(*   "sc"    src/token-erc-20-sc.go, the same layout, other TransferFrom;   *)
(*   "hex"   src/go/token_erc_20.go, one JSON document under key "token",   *)
(*           accounts keyed by the hex encoding of the creator bytes;      *)
(*   "raw"   src/unnamed/part_000, the same document, accounts keyed by     *)
(*           the creator bytes themselves.                                 *)
(* A Go string or []byte is a sequence of byte values 0..255.  Every       *)
(* handler is an operator from the ledger state, the caller and the        *)
(* argument list to its outcome (response, writes issued, event).  The     *)
(* host runs a handler against the committed state and then commits its    *)
(* writes, all or none, only when the response is a success.               *)
(***************************************************************************)
EXTENDS Integers, Sequences, FiniteSets, TLC

VARIABLES
    variant,    \* which of the four chaincodes is deployed
    store,      \* the committed ledger state: key -> value
    tx,         \* the invocation executed and not yet committed, or NoTx
    nops        \* number of invocations committed or rejected so far

vars == <<variant, store, tx, nops>>

(***************************************************************************)
(* Bounds of the model.                                                    *)
(***************************************************************************)
\* Width of Go's int and uint64, scaled down from 64 bits.
IntBits == 4
\* Number of invocations in a run.
MaxOps == 3

(***************************************************************************)
(* Byte strings.                                                           *)
(***************************************************************************)
nameKey == <<110, 97, 109, 101>>                                   \* "name"
symbolKey == <<115, 121, 109, 98, 111, 108>>                       \* "symbol"
decimalsKey == <<100, 101, 99, 105, 109, 97, 108, 115>>            \* "decimals"
totalSupplyKey == <<116, 111, 116, 97, 108, 83, 117, 112, 112, 108, 121>>  \* "totalSupply"
allowancePrefix == <<97, 108, 108, 111, 119, 97, 110, 99, 101>>    \* "allowance"
tokenKey == <<116, 111, 107, 101, 110>>                            \* "token"

RECURSIVE Pow2(_)
Pow2(n) == IF n = 0 THEN 1 ELSE 2 * Pow2(n - 1)

\* Go's int (two's complement, IntBits wide) and uint64 (IntBits wide).
MaxInt == Pow2(IntBits - 1) - 1
MinInt == 0 - Pow2(IntBits - 1)
MaxUint == Pow2(IntBits) - 1

\* Go's + and - on int: the result wraps.
WrapInt(x) == ((x - MinInt) % Pow2(IntBits)) + MinInt
\* Go's += and -= on uint64: the result wraps.
WrapUint(x) == x % Pow2(IntBits)

IsDigit(b) == b >= 48 /\ b <= 57

\* The digits of s from position i on, read as a decimal number, saturating
\* just above limit (strconv's cutoff test).
RECURSIVE Digits(_, _, _, _)
Digits(s, i, acc, limit) ==
    IF i > Len(s) THEN acc
    ELSE LET n == acc * 10 + (s[i] - 48)
         IN Digits(s, i + 1, IF n > limit THEN limit + 1 ELSE n, limit)

AllDigits(s, from) == \A i \in from..Len(s) : IsDigit(s[i])

\* strconv.ParseUint(s, 10, bits) with the maximum max: no sign, digits only.
ParseUintMax(s, max) ==
    IF Len(s) = 0 \/ ~AllDigits(s, 1) THEN [val |-> 0, err |-> "syntax"]
    ELSE LET n == Digits(s, 1, 0, max)
         IN IF n > max THEN [val |-> max, err |-> "range"]
            ELSE [val |-> n, err |-> "nil"]

\* strconv.ParseUint(s, 10, 64).
ParseUint64(s) == ParseUintMax(s, MaxUint)

\* Width of Token.Decimals (uint8).
DecimalsBits == 8

\* strconv.ParseUint(s, 10, 8).
ParseUint8(s) == ParseUintMax(s, Pow2(DecimalsBits) - 1)

\* strconv.Atoi(s): an optional sign, then digits; a value outside int is a
\* range error that returns the nearest bound.
Atoi(s) ==
    LET signed == Len(s) > 0 /\ s[1] \in {43, 45}
        neg == Len(s) > 0 /\ s[1] = 45
        first == IF signed THEN 2 ELSE 1
    IN IF Len(s) < first \/ ~AllDigits(s, first) THEN [val |-> 0, err |-> "syntax"]
       ELSE LET n == Digits(s, first, 0, MaxInt + 1)
            IN IF ~neg /\ n > MaxInt THEN [val |-> MaxInt, err |-> "range"]
               ELSE IF neg /\ n > MaxInt + 1 THEN [val |-> MinInt, err |-> "range"]
               ELSE [val |-> IF neg THEN 0 - n ELSE n, err |-> "nil"]

\* strconv.FormatUint(n, 10), fmt.Sprintf("%d", n) for n >= 0.
RECURSIVE FormatUint(_)
FormatUint(n) ==
    IF n < 10 THEN <<48 + n>> ELSE Append(FormatUint(n \div 10), 48 + (n % 10))

\* strconv.Itoa(n).
Itoa(n) == IF n < 0 THEN <<45>> \o FormatUint(0 - n) ELSE FormatUint(n)

HexDigit(n) == IF n < 10 THEN 48 + n ELSE 87 + n

\* hex.EncodeToString(b): two lower-case hex digits per byte.
RECURSIVE HexEncode(_)
HexEncode(b) ==
    IF Len(b) = 0 THEN <<>>
    ELSE <<HexDigit(b[1] \div 16), HexDigit(b[1] % 16)>> \o HexEncode(Tail(b))

IsCont(s, i, lo, hi) == i <= Len(s) /\ s[i] >= lo /\ s[i] <= hi

\* utf8.DecodeRuneInString at position i: the size of the valid encoding that
\* starts there, 0 when the byte starts none (RuneError of width 1).
RuneSize(s, i) ==
    LET b == s[i]
    IN IF b < 128 THEN 1
       ELSE IF b >= 194 /\ b <= 223 THEN
            (IF IsCont(s, i + 1, 128, 191) THEN 2 ELSE 0)
       ELSE IF b >= 224 /\ b <= 239 THEN
            (IF IsCont(s, i + 1, IF b = 224 THEN 160 ELSE 128, IF b = 237 THEN 159 ELSE 191)
                /\ IsCont(s, i + 2, 128, 191) THEN 3 ELSE 0)
       ELSE IF b >= 240 /\ b <= 244 THEN
            (IF IsCont(s, i + 1, IF b = 240 THEN 144 ELSE 128, IF b = 244 THEN 143 ELSE 191)
                /\ IsCont(s, i + 2, 128, 191) /\ IsCont(s, i + 3, 128, 191) THEN 4 ELSE 0)
       ELSE 0

\* A string after json.Marshal and json.Unmarshal: every byte that is not part
\* of a valid UTF-8 encoding comes back as U+FFFD (bytes EF BF BD).
RECURSIVE JSONString(_, _)
JSONString(s, i) ==
    IF i > Len(s) THEN <<>>
    ELSE LET n == RuneSize(s, i)
         IN IF n = 0 THEN <<239, 191, 189>> \o JSONString(s, i + 1)
            ELSE SubSeq(s, i, i + n - 1) \o JSONString(s, i + n)

\* Byte-wise order of Go strings (the order json.Marshal writes map keys in).
RECURSIVE StrLess(_, _)
StrLess(s, t) ==
    IF Len(t) = 0 THEN FALSE
    ELSE IF Len(s) = 0 THEN TRUE
    ELSE IF s[1] # t[1] THEN s[1] < t[1]
    ELSE StrLess(Tail(s), Tail(t))

(***************************************************************************)
(* The ledger state and the outcome of an invocation.                      *)
(***************************************************************************)
\* A possibly-nil []byte: <<>> is nil, <<b>> holds b.
None == <<>>
Some(b) == <<b>>

EmptyStore == [k \in {} |-> <<>>]

\* stub.GetState(key): the committed value, nil for a key never written.
GetState(st, key) == IF key \in DOMAIN st THEN Some(st[key]) ELSE None

\* shim.Error(msg); w are the writes the handler issued before it failed.
Fail(msg, w) ==
    [status |-> "ERROR", message |-> msg, payload |-> None, writes |-> w, event |-> None]

\* shim.Success(payload).
Success(payload, w, ev) ==
    [status |-> "OK", message |-> "", payload |-> payload, writes |-> w, event |-> ev]

\* stub.PutState(key, value) after the writes w, then the rest K of the handler:
\* the shim refuses an empty key, and the handler returns its error.
PutState(key, value, w, K(_)) ==
    IF key = <<>> THEN Fail("key must not be an empty string", w)
    ELSE K(Append(w, <<key, value>>))

RECURSIVE ApplyWrites(_, _)
ApplyWrites(st, w) ==
    IF Len(w) = 0 THEN st
    ELSE ApplyWrites([k \in DOMAIN st \cup {w[1][1]} |->
                          IF k = w[1][1] THEN w[1][2] ELSE st[k]], Tail(w))

\* The host commits the writes of an invocation, in the order issued, only when
\* the response is a success.
Commit(st, out) == IF out.status = "OK" THEN ApplyWrites(st, out.writes) ELSE st

\* json.Marshal of the event struct {From, To, Value}, attached by
\* stub.SetEvent("Transfer", ...).
TransferEvent(from, to, value) ==
    Some([name |-> "Transfer",
          payload |-> [from |-> JSONString(from, 1), to |-> JSONString(to, 1),
                       value |-> value]])

\* A handler that drops the error of SetEvent and answers as if the event
\* had been attached.
SetEventFails_ErrorDropped(v, out, err) == out

\* err = APIstub.SetEvent("Transfer", eventBytes); if err != nil { return
\* shim.Error(err.Error()) }: the response of a handler whose event could not
\* be attached. Attaching the event is the handler's last step, so the writes
\* of out were all issued before the failure; a handler that returned before
\* it reached SetEvent answers as it did. The variants "hex" and "raw" answer
\* shim.Error(fmt.Sprintf("Failed to set event: %s", err)).
SetEventFails(v, out, err) ==
    IF out.status = "OK" /\ out.event # None
    THEN Fail(IF v \in {"hex", "raw"} THEN "Failed to set event: " \o err ELSE err,
              out.writes)
    ELSE out

\* balance, _ = strconv.Atoi(string(balanceBytes)): the error is dropped.
AtoiIgnoreErr(bytes) == Atoi(bytes).val

(***************************************************************************)
(* Variant "peer": src/token-erc-20_peer.go                                *)
(***************************************************************************)
Mint_peer(st, args) ==
    IF Len(args) # 2 THEN Fail("Incorrect number of arguments. Expecting 2", <<>>)
    ELSE LET minter == args[1]
             amount == Atoi(args[2])
         IN IF amount.err # "nil" THEN Fail("Invalid amount. Expecting a numeric string", <<>>)
            ELSE LET balanceBytes == GetState(st, minter)
                     balance == IF balanceBytes = None THEN 0
                                ELSE AtoiIgnoreErr(balanceBytes[1])
                     newBalance == WrapInt(balance + amount.val)
                 IN PutState(minter, Itoa(newBalance), <<>>,
                        LAMBDA w : Success(None, w, TransferEvent(<<>>, minter, amount.val)))

\* Burn without the comparison of the balance with the amount.
Burn_NoBalanceCheck(st, args) ==
    IF Len(args) # 2 THEN Fail("Incorrect number of arguments. Expecting 2", <<>>)
    ELSE LET minter == args[1]
             amount == Atoi(args[2])
         IN IF amount.err # "nil" THEN Fail("Invalid amount. Expecting a numeric string", <<>>)
            ELSE LET balanceBytes == GetState(st, minter)
                 IN IF balanceBytes = None THEN Fail("Account not found", <<>>)
                    ELSE LET balance == AtoiIgnoreErr(balanceBytes[1])
                         IN PutState(minter, Itoa(WrapInt(balance - amount.val)), <<>>,
                                LAMBDA w : Success(None, w,
                                               TransferEvent(minter, <<>>, amount.val)))

Burn_peer(st, args) ==
    IF Len(args) # 2 THEN Fail("Incorrect number of arguments. Expecting 2", <<>>)
    ELSE LET minter == args[1]
             amount == Atoi(args[2])
         IN IF amount.err # "nil" THEN Fail("Invalid amount. Expecting a numeric string", <<>>)
            ELSE LET balanceBytes == GetState(st, minter)
                 IN IF balanceBytes = None THEN Fail("Account not found", <<>>)
                    ELSE LET balance == AtoiIgnoreErr(balanceBytes[1])
                         IN IF balance < amount.val THEN Fail("Insufficient balance", <<>>)
                            ELSE PutState(minter, Itoa(WrapInt(balance - amount.val)), <<>>,
                                     LAMBDA w : Success(None, w,
                                                    TransferEvent(minter, <<>>, amount.val)))

\* Transfer without the comparison of the sender's balance with the amount.
Transfer_NoBalanceCheck(st, args) ==
    IF Len(args) # 3 THEN Fail("Incorrect number of arguments. Expecting 3", <<>>)
    ELSE LET from == args[1]
             to == args[2]
             amount == Atoi(args[3])
         IN IF amount.err # "nil" THEN Fail("Invalid amount. Expecting a numeric string", <<>>)
            ELSE LET fromBalanceBytes == GetState(st, from)
                 IN IF fromBalanceBytes = None THEN Fail("Sender account not found", <<>>)
                    ELSE LET fromBalance == AtoiIgnoreErr(fromBalanceBytes[1])
                             toBalanceBytes == GetState(st, to)
                             toBalance == IF toBalanceBytes = None THEN 0
                                          ELSE AtoiIgnoreErr(toBalanceBytes[1])
                         IN PutState(from, Itoa(WrapInt(fromBalance - amount.val)), <<>>,
                              LAMBDA w1 :
                                PutState(to, Itoa(WrapInt(toBalance + amount.val)), w1,
                                  LAMBDA w2 : Success(None, w2,
                                                 TransferEvent(from, to, amount.val))))

Transfer_peer(st, args) ==
    IF Len(args) # 3 THEN Fail("Incorrect number of arguments. Expecting 3", <<>>)
    ELSE LET from == args[1]
             to == args[2]
             amount == Atoi(args[3])
         IN IF amount.err # "nil" THEN Fail("Invalid amount. Expecting a numeric string", <<>>)
            ELSE LET fromBalanceBytes == GetState(st, from)
                 IN IF fromBalanceBytes = None THEN Fail("Sender account not found", <<>>)
                    ELSE LET fromBalance == AtoiIgnoreErr(fromBalanceBytes[1])
                             toBalanceBytes == GetState(st, to)
                             toBalance == IF toBalanceBytes = None THEN 0
                                          ELSE AtoiIgnoreErr(toBalanceBytes[1])
                         IN IF fromBalance < amount.val THEN Fail("Insufficient balance", <<>>)
                            ELSE PutState(from, Itoa(WrapInt(fromBalance - amount.val)), <<>>,
                                   LAMBDA w1 :
                                     PutState(to, Itoa(WrapInt(toBalance + amount.val)), w1,
                                       LAMBDA w2 : Success(None, w2,
                                                      TransferEvent(from, to, amount.val))))

BalanceOf_peer(st, args) ==
    IF Len(args) # 1 THEN Fail("Incorrect number of arguments. Expecting 1", <<>>)
    ELSE LET balanceBytes == GetState(st, args[1])
         IN IF balanceBytes = None THEN Fail("Account not found", <<>>)
            ELSE Success(balanceBytes, <<>>, None)

\* clientID := string(cert)
ClientAccountBalance_peer(st, caller) == BalanceOf_peer(st, <<caller>>)

ClientAccountID_peer(caller) == Success(Some(caller), <<>>, None)

TotalSupply_peer(st) ==
    LET totalSupplyBytes == GetState(st, totalSupplyKey)
    IN IF totalSupplyBytes = None THEN Fail("Total supply not set", <<>>)
       ELSE Success(totalSupplyBytes, <<>>, None)

\* Approve that adds the amount to the allowance already stored.
Approve_Additive(st, args) ==
    IF Len(args) # 3 THEN Fail("Incorrect number of arguments. Expecting 3", <<>>)
    ELSE LET owner == args[1]
             spender == args[2]
             amount == Atoi(args[3])
         IN IF amount.err # "nil" THEN Fail("Invalid amount. Expecting a numeric string", <<>>)
            ELSE LET allowanceKey == allowancePrefix \o owner \o spender
                     allowanceBytes == GetState(st, allowanceKey)
                     allowance == IF allowanceBytes = None THEN 0
                                  ELSE AtoiIgnoreErr(allowanceBytes[1])
                 IN Success(None,
                            <<<<allowanceKey, Itoa(WrapInt(allowance + amount.val))>>>>, None)

Approve_peer(st, args) ==
    IF Len(args) # 3 THEN Fail("Incorrect number of arguments. Expecting 3", <<>>)
    ELSE LET owner == args[1]
             spender == args[2]
             amount == Atoi(args[3])
         IN IF amount.err # "nil" THEN Fail("Invalid amount. Expecting a numeric string", <<>>)
            ELSE LET allowanceKey == allowancePrefix \o owner \o spender
                 IN Success(None, <<<<allowanceKey, Itoa(amount.val)>>>>, None)

Allowance_peer(st, args) ==
    IF Len(args) # 2 THEN Fail("Incorrect number of arguments. Expecting 2", <<>>)
    ELSE LET allowanceKey == allowancePrefix \o args[1] \o args[2]
             allowanceBytes == GetState(st, allowanceKey)
         IN IF allowanceBytes = None THEN Fail("Allowance not found", <<>>)
            ELSE Success(allowanceBytes, <<>>, None)

TransferFrom_peer(st, args) ==
    IF Len(args) # 4 THEN Fail("Incorrect number of arguments. Expecting 4", <<>>)
    ELSE LET owner == args[1]
             spender == args[2]
             to == args[3]
             amount == Atoi(args[4])
         IN IF amount.err # "nil" THEN Fail("Invalid amount. Expecting a numeric string", <<>>)
            ELSE LET allowanceKey == allowancePrefix \o owner \o spender
                     allowanceBytes == GetState(st, allowanceKey)
                 IN IF allowanceBytes = None THEN Fail("Allowance not found", <<>>)
                    ELSE LET allowance == AtoiIgnoreErr(allowanceBytes[1])
                         IN IF allowance < amount.val THEN Fail("Allowance exceeded", <<>>)
                            ELSE LET fromBalanceBytes == GetState(st, owner)
                                 IN IF fromBalanceBytes = None
                                    THEN Fail("Owner account not found", <<>>)
                                    ELSE
    LET fromBalance == AtoiIgnoreErr(fromBalanceBytes[1])
        toBalanceBytes == GetState(st, to)
        toBalance == IF toBalanceBytes = None THEN 0 ELSE AtoiIgnoreErr(toBalanceBytes[1])
    IN IF fromBalance < amount.val THEN Fail("Insufficient balance", <<>>)
       ELSE PutState(owner, Itoa(WrapInt(fromBalance - amount.val)), <<>>,
              LAMBDA w1 :
                PutState(to, Itoa(WrapInt(toBalance + amount.val)), w1,
                  LAMBDA w2 :
                    PutState(allowanceKey, Itoa(WrapInt(allowance - amount.val)), w2,
                      LAMBDA w3 : Success(None, w3, TransferEvent(owner, to, amount.val)))))

Name_peer(st) ==
    LET nameBytes == GetState(st, nameKey)
    IN IF nameBytes = None THEN Fail("Token name not set", <<>>)
       ELSE Success(nameBytes, <<>>, None)

Symbol_peer(st) ==
    LET symbolBytes == GetState(st, symbolKey)
    IN IF symbolBytes = None THEN Fail("Token symbol not set", <<>>)
       ELSE Success(symbolBytes, <<>>, None)

Initialize_peer(st, args) ==
    IF Len(args) # 4 THEN Fail("Incorrect number of arguments. Expecting 4", <<>>)
    ELSE LET name == args[1]
             symbol == args[2]
             decimals == Atoi(args[3])
             totalSupply == Atoi(args[4])
         IN IF decimals.err # "nil"
            THEN Fail("Invalid decimals. Expecting a numeric string", <<>>)
            ELSE IF totalSupply.err # "nil"
            THEN Fail("Invalid total supply. Expecting a numeric string", <<>>)
            ELSE Success(None, <<<<nameKey, name>>, <<symbolKey, symbol>>,
                                 <<decimalsKey, Itoa(decimals.val)>>,
                                 <<totalSupplyKey, Itoa(totalSupply.val)>>>>, None)

\* The switch without its default branch: an unknown name falls through to
\* the success at the end of the function.
Invoke_peer_NoDefault(st, caller, function, args) ==
    CASE function = "Mint" -> Mint_peer(st, args)
      [] function = "Burn" -> Burn_peer(st, args)
      [] function = "Transfer" -> Transfer_peer(st, args)
      [] function = "BalanceOf" -> BalanceOf_peer(st, args)
      [] function = "ClientAccountBalance" -> ClientAccountBalance_peer(st, caller)
      [] function = "ClientAccountID" -> ClientAccountID_peer(caller)
      [] function = "TotalSupply" -> TotalSupply_peer(st)
      [] function = "Approve" -> Approve_peer(st, args)
      [] function = "Allowance" -> Allowance_peer(st, args)
      [] function = "TransferFrom" -> TransferFrom_peer(st, args)
      [] function = "Name" -> Name_peer(st)
      [] function = "Symbol" -> Symbol_peer(st)
      [] function = "Initialize" -> Initialize_peer(st, args)
      [] OTHER -> Success(None, <<>>, None)

\* The dispatch on the function name.
Invoke_peer(st, caller, function, args) ==
    CASE function = "Mint" -> Mint_peer(st, args)
      [] function = "Burn" -> Burn_peer(st, args)
      [] function = "Transfer" -> Transfer_peer(st, args)
      [] function = "BalanceOf" -> BalanceOf_peer(st, args)
      [] function = "ClientAccountBalance" -> ClientAccountBalance_peer(st, caller)
      [] function = "ClientAccountID" -> ClientAccountID_peer(caller)
      [] function = "TotalSupply" -> TotalSupply_peer(st)
      [] function = "Approve" -> Approve_peer(st, args)
      [] function = "Allowance" -> Allowance_peer(st, args)
      [] function = "TransferFrom" -> TransferFrom_peer(st, args)
      [] function = "Name" -> Name_peer(st)
      [] function = "Symbol" -> Symbol_peer(st)
      [] function = "Initialize" -> Initialize_peer(st, args)
      [] OTHER -> Fail("Invalid function name", <<>>)

(***************************************************************************)
(* Variant "sc": src/token-erc-20-sc.go.  Mint, Burn, Transfer, BalanceOf, *)
(* TotalSupply, Approve and Allowance repeat the code of variant "peer".   *)
(***************************************************************************)
\* json.Marshal of the Token struct {Name, Symbol, Decimals, TotalSupply}.
MarshalToken_sc(name, symbol, decimals, totalSupply) ==
    [name |-> JSONString(name, 1), symbol |-> JSONString(symbol, 1),
     decimals |-> decimals, totalSupply |-> totalSupply]

Initialize_sc(st, args) ==
    IF Len(args) # 4 THEN Fail("Incorrect number of arguments. Expecting 4", <<>>)
    ELSE LET name == args[1]
             symbol == args[2]
             decimals == Atoi(args[3])
             totalSupply == Atoi(args[4])
         IN IF decimals.err # "nil"
            THEN Fail("Invalid decimals. Expecting a numeric string", <<>>)
            ELSE IF totalSupply.err # "nil"
            THEN Fail("Invalid total supply. Expecting a numeric string", <<>>)
            ELSE Success(Some(MarshalToken_sc(name, symbol, decimals.val, totalSupply.val)),
                         <<<<nameKey, name>>, <<symbolKey, symbol>>,
                           <<decimalsKey, Itoa(decimals.val)>>,
                           <<totalSupplyKey, Itoa(totalSupply.val)>>>>, None)

Mint_sc(st, args) == Mint_peer(st, args)

Burn_sc(st, args) == Burn_peer(st, args)

Transfer_sc(st, args) == Transfer_peer(st, args)

BalanceOf_sc(st, args) == BalanceOf_peer(st, args)

\* clientID := string(clientIdentity)
GetClientAccountID_sc(caller) == caller

ClientAccountBalance_sc(st, caller) ==
    LET clientID == GetClientAccountID_sc(caller)
        balanceBytes == GetState(st, clientID)
    IN IF balanceBytes = None THEN Fail("Account not found", <<>>)
       ELSE Success(balanceBytes, <<>>, None)

ClientAccountID_sc(caller) == Success(Some(GetClientAccountID_sc(caller)), <<>>, None)

TotalSupply_sc(st) == TotalSupply_peer(st)

Approve_sc(st, args) == Approve_peer(st, args)

Allowance_sc(st, args) == Allowance_peer(st, args)

\* The arguments are from, to, amount, owner: the allowance read is the one
\* owner gave to from, and the account debited is from.
TransferFrom_sc(st, args) ==
    IF Len(args) # 4 THEN Fail("Incorrect number of arguments. Expecting 4", <<>>)
    ELSE LET from == args[1]
             to == args[2]
             amount == Atoi(args[3])
             owner == args[4]
         IN IF amount.err # "nil" THEN Fail("Invalid amount. Expecting a numeric string", <<>>)
            ELSE LET allowanceKey == allowancePrefix \o owner \o from
                     allowanceBytes == GetState(st, allowanceKey)
                 IN IF allowanceBytes = None THEN Fail("Allowance not found", <<>>)
                    ELSE LET allowance == AtoiIgnoreErr(allowanceBytes[1])
                         IN IF allowance < amount.val THEN Fail("Insufficient allowance", <<>>)
                            ELSE LET fromBalanceBytes == GetState(st, from)
                                 IN IF fromBalanceBytes = None
                                    THEN Fail("Sender account not found", <<>>)
                                    ELSE
    LET fromBalance == AtoiIgnoreErr(fromBalanceBytes[1])
    IN IF fromBalance < amount.val THEN Fail("Insufficient balance", <<>>)
       ELSE LET toBalanceBytes == GetState(st, to)
                toBalance == IF toBalanceBytes = None THEN 0
                             ELSE AtoiIgnoreErr(toBalanceBytes[1])
            IN PutState(from, Itoa(WrapInt(fromBalance - amount.val)), <<>>,
                 LAMBDA w1 :
                   PutState(to, Itoa(WrapInt(toBalance + amount.val)), w1,
                     LAMBDA w2 :
                       PutState(allowanceKey, Itoa(WrapInt(allowance - amount.val)), w2,
                         LAMBDA w3 : Success(None, w3, TransferEvent(from, to, amount.val)))))

Invoke_sc(st, caller, function, args) ==
    CASE function = "Initialize" -> Initialize_sc(st, args)
      [] function = "Mint" -> Mint_sc(st, args)
      [] function = "Burn" -> Burn_sc(st, args)
      [] function = "Transfer" -> Transfer_sc(st, args)
      [] function = "BalanceOf" -> BalanceOf_sc(st, args)
      [] function = "ClientAccountBalance" -> ClientAccountBalance_sc(st, caller)
      [] function = "ClientAccountID" -> ClientAccountID_sc(caller)
      [] function = "TotalSupply" -> TotalSupply_sc(st)
      [] function = "Approve" -> Approve_sc(st, args)
      [] function = "Allowance" -> Allowance_sc(st, args)
      [] function = "TransferFrom" -> TransferFrom_sc(st, args)
      [] OTHER -> Fail("Invalid function name", <<>>)

(***************************************************************************)
(* Variants "hex" (src/go/token_erc_20.go) and "raw"                       *)
(* (src/unnamed/part_000): the Token struct, stored as JSON under "token". *)
(***************************************************************************)
\* token.Balance[key]: the zero value for a key the map does not hold.
MapGet(m, key) == IF key \in DOMAIN m THEN m[key] ELSE 0

\* token.Balance[key] = value
MapSet(m, key, value) == [k \in DOMAIN m \cup {key} |-> IF k = key THEN value ELSE m[k]]

RECURSIVE SortKeys(_)
SortKeys(S) ==
    IF S = {} THEN <<>>
    ELSE LET least == CHOOSE x \in S : \A y \in S \ {x} : StrLess(x, y)
         IN <<least>> \o SortKeys(S \ {least})

\* json.Marshal(token): the strings as JSON carries them, the balance map as
\* the list of its entries in the order of their keys.
Marshal(token) ==
    LET keys == SortKeys(DOMAIN token.Balance)
    IN [name |-> JSONString(token.Name, 1), symbol |-> JSONString(token.Symbol, 1),
        total |-> token.Total, decimals |-> token.Decimals,
        balance |-> [i \in 1..Len(keys) |->
                        <<JSONString(keys[i], 1), token.Balance[keys[i]]>>]]

\* json.Unmarshal(tokenJSON, &token): nil bytes are an error; of two entries
\* with the same key the later one stays in the map.
Unmarshal(tokenJSON) ==
    IF tokenJSON = None THEN [err |-> TRUE]
    ELSE LET doc == tokenJSON[1]
             keys == {doc.balance[i][1] : i \in DOMAIN doc.balance}
             lastOf(k) == CHOOSE i \in DOMAIN doc.balance :
                              /\ doc.balance[i][1] = k
                              /\ \A j \in DOMAIN doc.balance :
                                     doc.balance[j][1] = k => j <= i
         IN [err |-> FALSE,
             token |-> [Name |-> doc.name, Symbol |-> doc.symbol, Total |-> doc.total,
                        Decimals |-> doc.decimals,
                        Balance |-> [k \in keys |-> doc.balance[lastOf(k)][2]]]]

\* stub.PutState("token", tokenJSON)
PutToken(token) == <<<<tokenKey, Marshal(token)>>>>

\* The account key of a creator: its hex encoding in "hex", its bytes in "raw".
CreatorKey(v, creator) == IF v = "hex" THEN HexEncode(creator) ELSE creator

\* The arguments are name, symbol, total supply, decimals.
Initialize_token(v, st, caller, args) ==
    IF Len(args) # 4
    THEN Fail("Incorrect number of arguments. Expected 4: name, symbol, total supply, decimals",
              <<>>)
    ELSE LET totalSupply == ParseUint64(args[3])
             decimals == ParseUint8(args[4])
         IN IF totalSupply.err # "nil" THEN Fail("Invalid total supply", <<>>)
            ELSE IF decimals.err # "nil" THEN Fail("Invalid decimals", <<>>)
            ELSE LET token == [Name |-> args[1], Symbol |-> args[2],
                               Total |-> totalSupply.val, Decimals |-> decimals.val,
                               Balance |-> MapSet(EmptyStore, CreatorKey(v, caller),
                                                  totalSupply.val)]
                 IN Success(None, PutToken(token), None)

\* stub.SetEvent("Transfer", []byte(fmt.Sprintf("Minted %d tokens to %s", ...)))
MintedEvent(amount, to) ==
    Some([name |-> "Transfer",
          payload |-> [format |-> "Minted %d tokens to %s", amount |-> amount, to |-> to]])

Mint_token(v, st, caller, args) ==
    IF Len(args) # 1 THEN Fail("Incorrect number of arguments. Expecting 1: amount", <<>>)
    ELSE LET amount == ParseUint64(args[1])
         IN IF amount.err # "nil" THEN Fail("Invalid amount", <<>>)
            ELSE LET u == Unmarshal(GetState(st, tokenKey))
                 IN IF u.err THEN Fail("Failed to unmarshal token", <<>>)
                    ELSE LET key == CreatorKey(v, caller)
                             token == [u.token EXCEPT
                                 !.Total = WrapUint(u.token.Total + amount.val),
                                 !.Balance = MapSet(u.token.Balance, key,
                                     WrapUint(MapGet(u.token.Balance, key) + amount.val))]
                         IN Success(None, PutToken(token), MintedEvent(amount.val, key))

ClientAccountID_hex(caller) == Success(Some(HexEncode(caller)), <<>>, None)

ClientAccountID_raw(caller) == Success(Some(caller), <<>>, None)

\* A caller whose key the map does not hold gets it written with balance 0.
ClientAccountBalance_hex(st, caller) ==
    LET u == Unmarshal(GetState(st, tokenKey))
    IN IF u.err THEN Fail("Failed to unmarshal token", <<>>)
       ELSE LET clientIDHex == HexEncode(caller)
            IN IF clientIDHex \in DOMAIN u.token.Balance
               THEN Success(Some(FormatUint(u.token.Balance[clientIDHex])), <<>>, None)
               ELSE Success(Some(FormatUint(0)),
                            PutToken([u.token EXCEPT
                                !.Balance = MapSet(u.token.Balance, clientIDHex, 0)]),
                            None)

ClientAccountBalance_raw(st, caller) ==
    LET clientIDResp == ClientAccountID_raw(caller)
        clientID == clientIDResp.payload[1]
        u == Unmarshal(GetState(st, tokenKey))
    IN IF u.err THEN Fail("Failed to unmarshal token", <<>>)
       ELSE IF clientID \notin DOMAIN u.token.Balance
       THEN Fail("Balance not found for client ID", <<>>)
       ELSE Success(Some(FormatUint(u.token.Balance[clientID])), <<>>, None)

\* The sender's account is token.Balance[string(sender)] in both variants.
transfer_token(st, caller, args) ==
    IF Len(args) # 2
    THEN Fail("Incorrect number of arguments. Expecting 2: to address and amount", <<>>)
    ELSE LET amount == ParseUint64(args[2])
         IN IF amount.err # "nil" THEN Fail("Invalid amount", <<>>)
            ELSE LET u == Unmarshal(GetState(st, tokenKey))
                 IN IF u.err THEN Fail("Failed to unmarshal token", <<>>)
                    ELSE LET sender == caller
                             senderBalance == MapGet(u.token.Balance, sender)
                         IN IF senderBalance < amount.val THEN Fail("Insufficient balance", <<>>)
                            ELSE LET debited == MapSet(u.token.Balance, sender,
                                                   WrapUint(senderBalance - amount.val))
                                     receiver == args[1]
                                     credited == MapSet(debited, receiver,
                                         WrapUint(MapGet(debited, receiver) + amount.val))
                                 IN Success(None,
                                            PutToken([u.token EXCEPT !.Balance = credited]),
                                            None)

balanceOf_token(st, args) ==
    IF Len(args) # 1
    THEN Fail("Incorrect number of arguments. Expecting 1: to address", <<>>)
    ELSE LET address == args[1]
         IN IF address = <<>> THEN Fail("Address argument must be a non-empty string", <<>>)
            ELSE LET tokenJSON == GetState(st, tokenKey)
                 IN IF tokenJSON = None THEN Fail("Token state does not exist", <<>>)
                    ELSE LET u == Unmarshal(tokenJSON)
                         IN IF address \notin DOMAIN u.token.Balance
                            THEN Fail("No balance found for address", <<>>)
                            ELSE Success(Some(FormatUint(u.token.Balance[address])),
                                         <<>>, None)

name_token(st) ==
    LET u == Unmarshal(GetState(st, tokenKey))
    IN IF u.err THEN Fail("Failed to unmarshal token", <<>>)
       ELSE Success(Some(u.token.Name), <<>>, None)

symbol_token(st) ==
    LET u == Unmarshal(GetState(st, tokenKey))
    IN IF u.err THEN Fail("Failed to unmarshal token", <<>>)
       ELSE Success(Some(u.token.Symbol), <<>>, None)

totalSupply_token(st) ==
    LET u == Unmarshal(GetState(st, tokenKey))
    IN IF u.err THEN Fail("Failed to unmarshal token", <<>>)
       ELSE Success(Some(FormatUint(u.token.Total)), <<>>, None)

Initialize_hex(st, caller, args) == Initialize_token("hex", st, caller, args)

Initialize_raw(st, caller, args) == Initialize_token("raw", st, caller, args)

Mint_hex(st, caller, args) == Mint_token("hex", st, caller, args)

Mint_raw(st, caller, args) == Mint_token("raw", st, caller, args)

transfer_hex(st, caller, args) == transfer_token(st, caller, args)

transfer_raw(st, caller, args) == transfer_token(st, caller, args)

Invoke_hex(st, caller, function, args) ==
    CASE function = "Initialize" -> Initialize_hex(st, caller, args)
      [] function = "Mint" -> Mint_hex(st, caller, args)
      [] function = "ClientAccountBalance" -> ClientAccountBalance_hex(st, caller)
      [] function = "ClientAccountID" -> ClientAccountID_hex(caller)
      [] function = "transfer" -> transfer_hex(st, caller, args)
      [] function = "balanceOf" -> balanceOf_token(st, args)
      [] function = "name" -> name_token(st)
      [] function = "symbol" -> symbol_token(st)
      [] function = "totalSupply" -> totalSupply_token(st)
      [] OTHER -> Fail("Invalid function name", <<>>)

Invoke_raw(st, caller, function, args) ==
    CASE function = "Initialize" -> Initialize_raw(st, caller, args)
      [] function = "Mint" -> Mint_raw(st, caller, args)
      [] function = "ClientAccountBalance" -> ClientAccountBalance_raw(st, caller)
      [] function = "ClientAccountID" -> ClientAccountID_raw(caller)
      [] function = "transfer" -> transfer_raw(st, caller, args)
      [] function = "balanceOf" -> balanceOf_token(st, args)
      [] function = "name" -> name_token(st)
      [] function = "symbol" -> symbol_token(st)
      [] function = "totalSupply" -> totalSupply_token(st)
      [] OTHER -> Fail("Invalid function name", <<>>)

(***************************************************************************)
(* Inputs of the invocations.                                              *)
(***************************************************************************)
\* Creator bytes of the callers: "A", and a byte that is no valid UTF-8 (the
\* serialized identities of the host carry length bytes above 0x7F).
Callers == {<<65>>, <<182>>}

\* Amount arguments: "0", "1", "5", "-1", "x".
AmountArgs == {<<48>>, <<49>>, <<53>>, <<45, 49>>, <<120>>}

\* Total supply arguments: "5", "9".
SupplyArgs == {<<53>>, <<57>>}

\* Decimals arguments: "2", "x".
DecimalsArgs == {<<50>>, <<120>>}

\* Name and symbol arguments: "G", "S".
TokenName == <<71>>
TokenSymbol == <<83>>

\* Account addresses passed as arguments to the variants "peer" and "sc".
Addresses == Callers

\* Amount arguments of the variants "hex" and "raw": "0", "1", "9", "x".
TokenAmountArgs == {<<48>>, <<49>>, <<57>>, <<120>>}

\* Receiver and queried addresses of the variant "hex": what ClientAccountID
\* returns for the callers, and the callers' bytes.
HexAddresses == {HexEncode(c) : c \in Callers} \cup Callers

NoOutcome ==
    [status |-> "NONE", message |-> "", payload |-> None, writes |-> <<>>, event |-> None]

NoTx ==
    [function |-> "", args |-> <<>>, caller |-> <<>>, out |-> NoOutcome,
     setEventErr |-> "nil"]

\* The ledger of a chaincode just deployed (Init writes nothing).
InitOf(v) ==
    /\ variant = v
    /\ store = EmptyStore
    /\ tx = NoTx
    /\ nops = 0

Init == InitOf("peer")

\* The chaincode's entry point.
Invoke(v, st, caller, function, args) ==
    CASE v = "peer" -> Invoke_peer(st, caller, function, args)
      [] v = "sc" -> Invoke_sc(st, caller, function, args)
      [] v = "hex" -> Invoke_hex(st, caller, function, args)
      [] v = "raw" -> Invoke_raw(st, caller, function, args)

\* The host runs one invocation against the committed state: the handler's
\* response, the writes it issued and its event are held until the commit.
Exec(caller, function, args) ==
    /\ tx = NoTx
    /\ nops < MaxOps
    /\ tx' = [function |-> function, args |-> args, caller |-> caller,
              out |-> Invoke(variant, store, caller, function, args),
              setEventErr |-> "nil"]
    /\ UNCHANGED <<variant, store, nops>>

\* The same, with a host whose SetEvent returns the error err to the handler.
ExecSetEventFails(caller, function, args, err) ==
    /\ tx = NoTx
    /\ nops < MaxOps
    /\ tx' = [function |-> function, args |-> args, caller |-> caller,
              out |-> SetEventFails(variant, Invoke(variant, store, caller, function, args), err),
              setEventErr |-> err]
    /\ UNCHANGED <<variant, store, nops>>

\* The state the invocation in flight leaves behind.
Post == Commit(store, tx.out)

\* The host ends the invocation in flight: its writes become visible together
\* when it succeeded, none of them when it failed.
CommitTx ==
    /\ tx # NoTx
    /\ store' = Post
    /\ tx' = NoTx
    /\ nops' = nops + 1
    /\ UNCHANGED variant

PeerMint ==
    /\ variant = "peer"
    /\ \E c \in Callers, minter \in Addresses, amount \in AmountArgs :
          Exec(c, "Mint", <<minter, amount>>)

PeerBurn ==
    /\ variant = "peer"
    /\ \E c \in Callers, minter \in Addresses, amount \in AmountArgs :
          Exec(c, "Burn", <<minter, amount>>)

PeerTransfer ==
    /\ variant = "peer"
    /\ \E c \in Callers, from \in Addresses, to \in Addresses, amount \in AmountArgs :
          Exec(c, "Transfer", <<from, to, amount>>)

PeerApprove ==
    /\ variant = "peer"
    /\ \E c \in Callers, owner \in Addresses, spender \in Addresses, amount \in AmountArgs :
          Exec(c, "Approve", <<owner, spender, amount>>)

PeerTransferFrom ==
    /\ variant = "peer"
    /\ \E c \in Callers, owner \in Addresses, spender \in Addresses, to \in Addresses,
          amount \in AmountArgs :
          Exec(c, "TransferFrom", <<owner, spender, to, amount>>)

PeerInitialize ==
    /\ variant = "peer"
    /\ \E c \in Callers, decimals \in DecimalsArgs, totalSupply \in SupplyArgs :
          Exec(c, "Initialize", <<TokenName, TokenSymbol, decimals, totalSupply>>)

PeerBalanceOf ==
    /\ variant = "peer"
    /\ \E c \in Callers, account \in Addresses : Exec(c, "BalanceOf", <<account>>)

PeerAllowance ==
    /\ variant = "peer"
    /\ \E c \in Callers, owner \in Addresses, spender \in Addresses :
          Exec(c, "Allowance", <<owner, spender>>)

PeerQuery ==
    /\ variant = "peer"
    /\ \E c \in Callers,
          function \in {"ClientAccountBalance", "ClientAccountID", "TotalSupply",
                        "Name", "Symbol"} :
          Exec(c, function, <<>>)

\* An invocation with no arguments, or of a function the dispatch does not know.
PeerBadCall ==
    /\ variant = "peer"
    /\ \E c \in Callers,
          function \in {"Mint", "Burn", "Transfer", "Approve", "TransferFrom", "Initialize",
                        "BalanceOf", "Allowance", "transfer"} :
          Exec(c, function, <<>>)

ScMint ==
    /\ variant = "sc"
    /\ \E c \in Callers, minter \in Addresses, amount \in AmountArgs :
          Exec(c, "Mint", <<minter, amount>>)

ScBurn ==
    /\ variant = "sc"
    /\ \E c \in Callers, minter \in Addresses, amount \in AmountArgs :
          Exec(c, "Burn", <<minter, amount>>)

ScTransfer ==
    /\ variant = "sc"
    /\ \E c \in Callers, from \in Addresses, to \in Addresses, amount \in AmountArgs :
          Exec(c, "Transfer", <<from, to, amount>>)

ScApprove ==
    /\ variant = "sc"
    /\ \E c \in Callers, owner \in Addresses, spender \in Addresses, amount \in AmountArgs :
          Exec(c, "Approve", <<owner, spender, amount>>)

ScTransferFrom ==
    /\ variant = "sc"
    /\ \E c \in Callers, from \in Addresses, to \in Addresses, amount \in AmountArgs,
          owner \in Addresses :
          Exec(c, "TransferFrom", <<from, to, amount, owner>>)

ScInitialize ==
    /\ variant = "sc"
    /\ \E c \in Callers, decimals \in DecimalsArgs, totalSupply \in SupplyArgs :
          Exec(c, "Initialize", <<TokenName, TokenSymbol, decimals, totalSupply>>)

ScBalanceOf ==
    /\ variant = "sc"
    /\ \E c \in Callers, account \in Addresses : Exec(c, "BalanceOf", <<account>>)

ScAllowance ==
    /\ variant = "sc"
    /\ \E c \in Callers, owner \in Addresses, spender \in Addresses :
          Exec(c, "Allowance", <<owner, spender>>)

ScQuery ==
    /\ variant = "sc"
    /\ \E c \in Callers,
          function \in {"ClientAccountBalance", "ClientAccountID", "TotalSupply"} :
          Exec(c, function, <<>>)

ScBadCall ==
    /\ variant = "sc"
    /\ \E c \in Callers,
          function \in {"Mint", "Burn", "Transfer", "Approve", "TransferFrom", "Initialize",
                        "BalanceOf", "Allowance", "Name", "Symbol"} :
          Exec(c, function, <<>>)

HexInitialize ==
    /\ variant = "hex"
    /\ \E c \in Callers, totalSupply \in SupplyArgs, decimals \in DecimalsArgs :
          Exec(c, "Initialize", <<TokenName, TokenSymbol, totalSupply, decimals>>)

HexMint ==
    /\ variant = "hex"
    /\ \E c \in Callers, amount \in TokenAmountArgs : Exec(c, "Mint", <<amount>>)

HexTransfer ==
    /\ variant = "hex"
    /\ \E c \in Callers, to \in HexAddresses \cup {<<>>}, amount \in TokenAmountArgs :
          Exec(c, "transfer", <<to, amount>>)

HexBalanceOf ==
    /\ variant = "hex"
    /\ \E c \in Callers, address \in HexAddresses \cup {<<>>} :
          Exec(c, "balanceOf", <<address>>)

HexQuery ==
    /\ variant = "hex"
    /\ \E c \in Callers,
          function \in {"ClientAccountBalance", "ClientAccountID", "name", "symbol",
                        "totalSupply"} :
          Exec(c, function, <<>>)

HexBadCall ==
    /\ variant = "hex"
    /\ \E c \in Callers,
          function \in {"Initialize", "Mint", "transfer", "balanceOf", "Transfer", "Burn"} :
          Exec(c, function, <<>>)

RawInitialize ==
    /\ variant = "raw"
    /\ \E c \in Callers, totalSupply \in SupplyArgs, decimals \in DecimalsArgs :
          Exec(c, "Initialize", <<TokenName, TokenSymbol, totalSupply, decimals>>)

(***************************************************************************)
(* The specifications: one deployed chaincode each.                        *)
(***************************************************************************)
Next ==
    \/ PeerMint \/ PeerBurn \/ PeerTransfer \/ PeerApprove \/ PeerTransferFrom
    \/ PeerInitialize \/ PeerBalanceOf \/ PeerAllowance \/ PeerQuery \/ PeerBadCall
    \/ CommitTx

Spec == Init /\ [][Next]_vars

InitSC == InitOf("sc")

NextSC ==
    \/ ScMint \/ ScBurn \/ ScTransfer \/ ScApprove \/ ScTransferFrom
    \/ ScInitialize \/ ScBalanceOf \/ ScAllowance \/ ScQuery \/ ScBadCall
    \/ CommitTx

SpecSC == InitSC /\ [][NextSC]_vars

InitHex == InitOf("hex")

NextHex ==
    \/ HexInitialize \/ HexMint \/ HexTransfer \/ HexBalanceOf \/ HexQuery \/ HexBadCall
    \/ CommitTx

SpecHex == InitHex /\ [][NextHex]_vars


(***************************************************************************)
(* What the ledger holds, as the handlers read it.                         *)
(***************************************************************************)
\* The balance the handlers of "peer" and "sc" compute with for an account:
\* 0 for a key with no value, else the stored bytes through Atoi.
BalanceAt(st, account) ==
    IF account \in DOMAIN st THEN AtoiIgnoreErr(st[account]) ELSE 0

\* The allowance TransferFrom reads for owner and spender (0 when unset).
AllowanceAt(st, owner, spender) ==
    LET allowanceKey == allowancePrefix \o owner \o spender
    IN IF allowanceKey \in DOMAIN st THEN AtoiIgnoreErr(st[allowanceKey]) ELSE 0

\* The value under "totalSupply" (0 when unset).
TotalSupplyAt(st) ==
    IF totalSupplyKey \in DOMAIN st THEN AtoiIgnoreErr(st[totalSupplyKey]) ELSE 0

RECURSIVE SumOver(_, _)
SumOver(st, accounts) ==
    IF accounts = {} THEN 0
    ELSE LET a == CHOOSE x \in accounts : TRUE
         IN BalanceAt(st, a) + SumOver(st, accounts \ {a})

\* The sum of the balances stored in "peer" and "sc".
SumOfBalances(st) == SumOver(st, DOMAIN st \cap Addresses)

\* The balance map of the Token document of "hex" and "raw".
TokenBalances(st) == Unmarshal(GetState(st, tokenKey)).token.Balance

\* The invocation in flight is a call of function with n arguments.
Calls(function, n) == tx.function = function /\ Len(tx.args) = n

(***************************************************************************)
(* Claims.                                                                 *)
(***************************************************************************)
\* C1: every successful Transfer of an amount a >= 0 between two distinct
\* accounts, from a sender that holds at least a, leaves the sender's balance
\* exactly a less, the recipient's exactly a more and their sum unchanged.
C1_TransferMovesAmount ==
    (Calls("Transfer", 3) /\ tx.out.status = "OK") =>
        LET from == tx.args[1]
            to == tx.args[2]
            a == Atoi(tx.args[3]).val
        IN (from # to /\ a >= 0 /\ BalanceAt(store, from) >= a) =>
              /\ BalanceAt(Post, from) = BalanceAt(store, from) - a
              /\ BalanceAt(Post, to) = BalanceAt(store, to) + a
              /\ BalanceAt(Post, from) + BalanceAt(Post, to)
                    = BalanceAt(store, from) + BalanceAt(store, to)

\* C3: every stored account balance is at least 0 in every reachable state.
C3_BalancesNonNegative ==
    \A account \in DOMAIN store \cap Addresses : AtoiIgnoreErr(store[account]) >= 0

\* C4: once the total supply is set, it equals the sum of all account balances.
C4_TotalSupplyIsSumOfBalances ==
    totalSupplyKey \in DOMAIN store => TotalSupplyAt(store) = SumOfBalances(store)

\* C5: every successful Mint of an amount a > 0 on an initialized token adds
\* exactly a to the minted account and to the total supply, and records a
\* Transfer event from "" to the minted account with value a.
C5_MintAddsToBalanceAndSupply ==
    (Calls("Mint", 2) /\ tx.out.status = "OK" /\ totalSupplyKey \in DOMAIN store) =>
        LET minter == tx.args[1]
            a == Atoi(tx.args[2]).val
        IN a > 0 =>
              /\ BalanceAt(Post, minter) = BalanceAt(store, minter) + a
              /\ TotalSupplyAt(Post) = TotalSupplyAt(store) + a
              /\ tx.out.event = TransferEvent(<<>>, minter, a)

\* C6: every Burn of an amount a > 0 that is at most the burned account's
\* balance, on an initialized token, succeeds and takes exactly a from that
\* balance and from the total supply.
C6_BurnTakesFromBalanceAndSupply ==
    (Calls("Burn", 2) /\ Atoi(tx.args[2]).err = "nil" /\ totalSupplyKey \in DOMAIN store) =>
        LET minter == tx.args[1]
            a == Atoi(tx.args[2]).val
        IN (a > 0 /\ a <= BalanceAt(store, minter)) =>
              /\ tx.out.status = "OK"
              /\ BalanceAt(Post, minter) = BalanceAt(store, minter) - a
              /\ TotalSupplyAt(Post) = TotalSupplyAt(store) - a

\* The roles of the arguments of the TransferFrom in flight: "peer" takes
\* owner, spender, to, amount; "sc" takes from, to, amount, owner and reads the
\* allowance owner gave to from.
TfOwner == IF variant = "sc" THEN tx.args[4] ELSE tx.args[1]
TfSpender == IF variant = "sc" THEN tx.args[1] ELSE tx.args[2]
TfTo == IF variant = "sc" THEN tx.args[2] ELSE tx.args[3]
TfAmount == IF variant = "sc" THEN Atoi(tx.args[3]) ELSE Atoi(tx.args[4])

\* C2: every TransferFrom of an amount a > 0 to an account other than the
\* owner, with allowance(owner, spender) >= a and owner's balance >= a,
\* succeeds and leaves owner's balance a less, to's balance a more and the
\* allowance a less.
C2_TransferFromMovesAmount ==
    (Calls("TransferFrom", 4) /\ TfAmount.err = "nil") =>
        LET a == TfAmount.val
        IN (/\ a > 0
            /\ TfOwner # TfTo
            /\ AllowanceAt(store, TfOwner, TfSpender) >= a
            /\ BalanceAt(store, TfOwner) >= a) =>
              /\ tx.out.status = "OK"
              /\ BalanceAt(Post, TfOwner) = BalanceAt(store, TfOwner) - a
              /\ BalanceAt(Post, TfTo) = BalanceAt(store, TfTo) + a
              /\ AllowanceAt(Post, TfOwner, TfSpender)
                    = AllowanceAt(store, TfOwner, TfSpender) - a

\* C7: in the state a successful Initialize with supply S by identity I leaves
\* on an empty ledger, I's address holds S, and a transfer of m <= S by I to
\* another address succeeds and leaves I's address at S - m, the other at m.
C7_InitializeThenTransfer ==
    \A I \in Callers, S \in SupplyArgs, d \in DecimalsArgs :
        LET init == Invoke_hex(EmptyStore, I, "Initialize", <<TokenName, TokenSymbol, S, d>>)
            addrI == ClientAccountID_hex(I).payload[1]
            supply == ParseUint64(S).val
        IN (init.status = "OK" /\ store = Commit(EmptyStore, init)) =>
              /\ MapGet(TokenBalances(store), addrI) = supply
              /\ (/\ Calls("transfer", 2)
                  /\ tx.caller = I
                  /\ tx.args[1] # addrI
                  /\ ParseUint64(tx.args[2]).err = "nil"
                  /\ ParseUint64(tx.args[2]).val <= supply) =>
                    /\ tx.out.status = "OK"
                    /\ MapGet(TokenBalances(Post), addrI)
                          = supply - ParseUint64(tx.args[2]).val
                    /\ MapGet(TokenBalances(Post), tx.args[1])
                          = ParseUint64(tx.args[2]).val

\* The Transfer in flight asks for more than the sender's balance.
TransferExceedsBalance ==
    /\ Calls("Transfer", 3)
    /\ Atoi(tx.args[3]).err = "nil"
    /\ Atoi(tx.args[3]).val > BalanceAt(store, tx.args[1])

C9_BurnBeyondBalanceFails ==
    (/\ Calls("Burn", 2)
     /\ Atoi(tx.args[2]).err = "nil"
     /\ Atoi(tx.args[2]).val > BalanceAt(store, tx.args[1])) =>
        /\ tx.out.status = "ERROR"
        /\ tx.out.writes = <<>>
        /\ Post = store

\* C9's case: a Burn of more than a stored, positive balance was refused on a
\* ledger that holds a total supply and an allowance.
C9_Witness ==
    /\ Calls("Burn", 2)
    /\ Atoi(tx.args[2]).err = "nil"
    /\ tx.args[1] \in DOMAIN store
    /\ BalanceAt(store, tx.args[1]) > 0
    /\ Atoi(tx.args[2]).val > BalanceAt(store, tx.args[1])
    /\ tx.out.status = "ERROR"
    /\ \E k \in DOMAIN store : k \notin Addresses

\* C10: a TransferFrom for which the allowance of (owner, spender) is absent
\* or below the amount, or owner's balance is below the amount, fails and
\* leaves owner's balance, to's balance and the allowance unchanged; with an
\* allowance that is set and below the amount the failure reports the
\* allowance.
C10_TransferFromRefused ==
    (Calls("TransferFrom", 4) /\ TfAmount.err = "nil") =>
        LET a == TfAmount.val
            allowanceKey == allowancePrefix \o TfOwner \o TfSpender
        IN /\ (\/ allowanceKey \notin DOMAIN store
               \/ AllowanceAt(store, TfOwner, TfSpender) < a
               \/ BalanceAt(store, TfOwner) < a) =>
                 /\ tx.out.status = "ERROR"
                 /\ BalanceAt(Post, TfOwner) = BalanceAt(store, TfOwner)
                 /\ BalanceAt(Post, TfTo) = BalanceAt(store, TfTo)
                 /\ GetState(Post, allowanceKey) = GetState(store, allowanceKey)
           /\ (allowanceKey \in DOMAIN store /\ AllowanceAt(store, TfOwner, TfSpender) < a) =>
                 tx.out.message \in {"Allowance exceeded", "Insufficient allowance"}

\* The ledger after one more invocation, committed on top of st.
After(st, caller, function, args) ==
    Commit(st, Invoke(variant, st, caller, function, args))

\* C11: Approve(owner, spender, amount) followed immediately by
\* Approve(owner, spender, amount2) succeeds and leaves allowance(owner,
\* spender) equal to amount2, whatever the allowance was before.
C11_ApproveOverwrites ==
    (Calls("Approve", 3) /\ tx.out.status = "OK") =>
        \A c \in Callers, amount2 \in AmountArgs :
            Atoi(amount2).err = "nil" =>
                LET owner == tx.args[1]
                    spender == tx.args[2]
                    second == <<owner, spender, amount2>>
                IN /\ Invoke(variant, Post, c, "Approve", second).status = "OK"
                   /\ AllowanceAt(After(Post, c, "Approve", second), owner, spender)
                         = Atoi(amount2).val
                   /\ Allowance_peer(After(Post, c, "Approve", second),
                                     <<owner, spender>>).payload = Some(Itoa(Atoi(amount2).val))

\* C11's case: an Approve of a positive amount is in flight for a pair whose
\* stored allowance is positive and differs from that amount.
C11_Witness ==
    /\ Calls("Approve", 3)
    /\ tx.out.status = "OK"
    /\ Atoi(tx.args[3]).val > 0
    /\ AllowanceAt(store, tx.args[1], tx.args[2]) > 0
    /\ AllowanceAt(store, tx.args[1], tx.args[2]) # Atoi(tx.args[3]).val
    /\ AllowanceAt(Post, tx.args[1], tx.args[2]) = Atoi(tx.args[3]).val

\* The keys under which allowances are stored.
AllowanceKeys == {allowancePrefix \o owner \o spender : owner \in Addresses, spender \in Addresses}

\* C12: every stored allowance is at least 0 in every reachable state.
C12_AllowancesNonNegative ==
    \A allowanceKey \in DOMAIN store \cap AllowanceKeys :
        AtoiIgnoreErr(store[allowanceKey]) >= 0

\* The arguments of a TransferFrom in the order the variant takes them.
TfArgs(owner, spender, to, amount) ==
    IF variant = "sc" THEN <<spender, to, amount, owner>>
    ELSE <<owner, spender, to, amount>>

\* C13: between one Approve(owner, spender, n) and the next Approve for the
\* pair, the successful TransferFrom invocations naming owner and spender take
\* no more than n out of owner's balance; here for the first TransferFrom that
\* follows the Approve.
C13_TransferFromWithinApproval ==
    (Calls("Approve", 3) /\ tx.out.status = "OK") =>
        \A c \in Callers, to \in Addresses, amount \in AmountArgs :
            LET owner == tx.args[1]
                spender == tx.args[2]
                n == Atoi(tx.args[3]).val
                args == TfArgs(owner, spender, to, amount)
            IN Invoke(variant, Post, c, "TransferFrom", args).status = "OK" =>
                  BalanceAt(Post, owner)
                     - BalanceAt(After(Post, c, "TransferFrom", args), owner) <= n

\* C14: a Burn or Transfer invoked by an identity decreases the balance of no
\* account other than that identity's own (the one ClientAccountID returns).
C14_DebitsOnlyCaller ==
    ((Calls("Burn", 2) \/ Calls("Transfer", 3)) /\ tx.out.status = "OK") =>
        \A account \in Addresses :
            account # ClientAccountID_peer(tx.caller).payload[1] =>
                BalanceAt(Post, account) >= BalanceAt(store, account)

\* The total supply in the Token document of "hex" and "raw".
TokenTotal(st) == Unmarshal(GetState(st, tokenKey)).token.Total

\* C15: a Mint or transfer whose addition to a balance or to the total supply
\* would exceed the largest unsigned value fails and leaves the ledger
\* unchanged.
C15_OverflowRejected ==
    /\ (/\ Calls("Mint", 1)
        /\ ParseUint64(tx.args[1]).err = "nil"
        /\ tokenKey \in DOMAIN store) =>
          LET a == ParseUint64(tx.args[1]).val
              key == CreatorKey(variant, tx.caller)
          IN (\/ TokenTotal(store) + a > MaxUint
              \/ MapGet(TokenBalances(store), key) + a > MaxUint) =>
                /\ tx.out.status = "ERROR"
                /\ Post = store
    /\ (/\ Calls("transfer", 2)
        /\ ParseUint64(tx.args[2]).err = "nil"
        /\ tokenKey \in DOMAIN store) =>
          LET a == ParseUint64(tx.args[2]).val
          IN MapGet(TokenBalances(store), tx.args[1]) + a > MaxUint =>
                /\ tx.out.status = "ERROR"
                /\ Post = store

\* The invocation in flight, of the variant "peer", carries a numeric argument
\* that is not the decimal encoding of a value of the stated width.
BadNumericArgument ==
    \/ Calls("Mint", 2) /\ ParseUint64(tx.args[2]).err # "nil"
    \/ Calls("Burn", 2) /\ ParseUint64(tx.args[2]).err # "nil"
    \/ Calls("Transfer", 3) /\ ParseUint64(tx.args[3]).err # "nil"
    \/ Calls("Approve", 3) /\ ParseUint64(tx.args[3]).err # "nil"
    \/ Calls("TransferFrom", 4) /\ ParseUint64(tx.args[4]).err # "nil"
    \/ Calls("Initialize", 4) /\ (\/ ParseUint8(tx.args[3]).err # "nil"
                                  \/ ParseUint64(tx.args[4]).err # "nil")

\* C16: an invocation whose numeric argument is not the decimal encoding of an
\* unsigned value of the stated width, a negative number in particular, fails
\* and changes no state.
C16_BadNumberRejected ==
    BadNumericArgument => (tx.out.status = "ERROR" /\ Post = store)

\* An Initialize has succeeded on the ledger: "hex" and "raw" hold the Token
\* document, "peer" and "sc" hold the symbol, which only Initialize writes.
Initialized(st) ==
    IF variant \in {"hex", "raw"} THEN tokenKey \in DOMAIN st
    ELSE symbolKey \in DOMAIN st

\* C17: after one successful Initialize every later Initialize fails and
\* leaves name, symbol, decimals, total supply and all balances unchanged.
C17_InitializeOnlyOnce ==
    (Initialized(store) /\ Calls("Initialize", 4)) =>
        (tx.out.status = "ERROR" /\ Post = store)

(***************************************************************************)
(* Variant "peer" invoked with account addresses that are ledger keys: the  *)
(* handlers store a balance under the address itself.                       *)
(***************************************************************************)
\* Account addresses: "name", "totalSupply", "A" and the empty string.
KeyAddresses == {nameKey, totalSupplyKey, <<65>>, <<>>}

\* Amount arguments: "1", "x".
KeyAmountArgs == {<<49>>, <<120>>}

KeyMint ==
    /\ variant = "peer"
    /\ \E c \in Callers, minter \in KeyAddresses, amount \in KeyAmountArgs :
          Exec(c, "Mint", <<minter, amount>>)

KeyBurn ==
    /\ variant = "peer"
    /\ \E c \in Callers, minter \in KeyAddresses, amount \in KeyAmountArgs :
          Exec(c, "Burn", <<minter, amount>>)

KeyTransfer ==
    /\ variant = "peer"
    /\ \E c \in Callers, from \in KeyAddresses, to \in KeyAddresses, amount \in KeyAmountArgs :
          Exec(c, "Transfer", <<from, to, amount>>)

KeyApprove ==
    /\ variant = "peer"
    /\ \E c \in Callers, owner \in KeyAddresses, spender \in KeyAddresses,
          amount \in KeyAmountArgs :
          Exec(c, "Approve", <<owner, spender, amount>>)

KeyTransferFrom ==
    /\ variant = "peer"
    /\ \E c \in Callers, owner \in KeyAddresses, spender \in KeyAddresses,
          to \in KeyAddresses, amount \in KeyAmountArgs :
          Exec(c, "TransferFrom", <<owner, spender, to, amount>>)

InitKeys == InitOf("peer")

NextKeys ==
    \/ PeerInitialize \/ KeyMint \/ KeyBurn \/ KeyTransfer \/ KeyApprove
    \/ KeyTransferFrom \/ CommitTx

SpecKeys == InitKeys /\ [][NextKeys]_vars

\* C18: after a successful Initialize the stored name, symbol and decimals
\* stay what they are through every Mint, Burn, Transfer, Approve and
\* TransferFrom, whatever account addresses these are given.
C18_MetadataImmutable ==
    (/\ Initialized(store)
     /\ tx.function \in {"Mint", "Burn", "Transfer", "Approve", "TransferFrom"}) =>
        /\ Name_peer(Post) = Name_peer(store)
        /\ Symbol_peer(Post) = Symbol_peer(store)
        /\ GetState(Post, decimalsKey) = GetState(store, decimalsKey)

\* C19: Transfer, Approve and TransferFrom leave what TotalSupply returns
\* unchanged, for every choice of their arguments.
C19_TotalSupplyFrame ==
    (/\ Initialized(store)
     /\ tx.function \in {"Transfer", "Approve", "TransferFrom"}) =>
        TotalSupply_peer(Post) = TotalSupply_peer(store)

\* C20: the caller's own account is, for every operation, the address
\* ClientAccountID returns for the caller: ClientAccountBalance reports the
\* balance stored there, and a transfer by the caller of no more than that
\* balance succeeds and takes the amount from it.
C20_OneAddressPerCaller ==
    (Initialized(store) /\ tx # NoTx) =>
        LET address == ClientAccountID_hex(tx.caller).payload[1]
            balance == MapGet(TokenBalances(store), address)
        IN /\ ClientAccountBalance_hex(store, tx.caller).payload = Some(FormatUint(balance))
           /\ (/\ Calls("transfer", 2)
               /\ ParseUint64(tx.args[2]).err = "nil"
               /\ ParseUint64(tx.args[2]).val <= balance) =>
                 /\ tx.out.status = "OK"
                 /\ tx.args[1] # address =>
                       MapGet(TokenBalances(Post), address)
                          = balance - ParseUint64(tx.args[2]).val

\* The query functions of the variant "hex".
HexQueries ==
    {"ClientAccountBalance", "ClientAccountID", "balanceOf", "name", "symbol", "totalSupply"}

\* C21: ClientAccountBalance returns the outcome (success and payload, or
\* failure) of BalanceOf applied to the address ClientAccountID returns for
\* the caller.
C21_ClientAccountBalanceIsBalanceOf ==
    Calls("ClientAccountBalance", 0) =>
        LET address == ClientAccountID_hex(tx.caller).payload[1]
            byAddress == balanceOf_token(store, <<address>>)
        IN /\ tx.out.status = byAddress.status
           /\ tx.out.payload = byAddress.payload

\* C22: a BalanceOf query returns the same result before and after any query
\* operation.
C22_QueriesKeepBalanceOf ==
    tx.function \in HexQueries =>
        \A address \in HexAddresses :
            balanceOf_token(Post, <<address>>) = balanceOf_token(store, <<address>>)

\* C23: BalanceOf for an address under which nothing was ever stored returns
\* a success with balance 0.
C23_UnseenBalanceIsZero ==
    (Calls("BalanceOf", 1) /\ tx.args[1] \notin DOMAIN store) =>
        /\ tx.out.status = "OK"
        /\ tx.out.payload = Some(Itoa(0))

\* C24: Allowance for a pair for which no Approve was ever made returns a
\* success with value 0.
C24_UnsetAllowanceIsZero ==
    (/\ Calls("Allowance", 2)
     /\ allowancePrefix \o tx.args[1] \o tx.args[2] \notin DOMAIN store) =>
        /\ tx.out.status = "OK"
        /\ tx.out.payload = Some(Itoa(0))

\* C25: every transfer whose recipient address is the empty string is
\* rejected and changes no state, and no balance is stored under the empty
\* address.
C25_EmptyRecipientRejected ==
    /\ (Calls("transfer", 2) /\ tx.args[1] = <<>>) =>
          (tx.out.status = "ERROR" /\ Post = store)
    /\ Initialized(store) => <<>> \notin DOMAIN TokenBalances(store)

\* C26: before any successful Initialize, Name, Symbol and TotalSupply each
\* fail; a successful Initialize with name n, symbol s and total supply t makes
\* them return n, s and the decimal encoding of t, and they keep returning the
\* same through every invocation other than Mint, Burn and Initialize.
C26_MetadataQueries ==
    /\ ~Initialized(store) =>
          /\ Name_peer(store).status = "ERROR"
          /\ Symbol_peer(store).status = "ERROR"
          /\ TotalSupply_peer(store).status = "ERROR"
    /\ (Calls("Initialize", 4) /\ tx.out.status = "OK") =>
          /\ Name_peer(Post) = Success(Some(tx.args[1]), <<>>, None)
          /\ Symbol_peer(Post) = Success(Some(tx.args[2]), <<>>, None)
          /\ TotalSupply_peer(Post)
                = Success(Some(Itoa(Atoi(tx.args[4]).val)), <<>>, None)
    /\ (Initialized(store) /\ tx # NoTx /\ tx.function \notin {"Mint", "Burn", "Initialize"}) =>
          /\ Name_peer(Post) = Name_peer(store)
          /\ Symbol_peer(Post) = Symbol_peer(store)
          /\ TotalSupply_peer(Post) = TotalSupply_peer(store)

\* C27: every successful transfer records one Transfer event whose from, to
\* and value are the debited account, the credited account and the amount.
C27_TransferEmitsEvent ==
    (Calls("transfer", 2) /\ tx.out.status = "OK") =>
        /\ tx.out.event # None
        /\ tx.out.event = TransferEvent(tx.caller, tx.args[1], ParseUint64(tx.args[2]).val)

\* The functions that write.
MutatingFunctions == {"Initialize", "Mint", "Burn", "Transfer", "Approve", "TransferFrom"}

\* C29: a mutating invocation that fails has issued no write and recorded no
\* event: every check precedes the first write.
C29_ChecksBeforeWrites ==
    (tx.function \in MutatingFunctions /\ tx.out.status = "ERROR") =>
        /\ tx.out.writes = <<>>
        /\ tx.out.event = None

(***************************************************************************)
(* Two invocations run against the same snapshot of the ledger.            *)
(***************************************************************************)
\* The keys a handler of the variant "peer" passes to GetState on the path it
\* takes from the state st.
ReadSet_peer(st, function, args) ==
    CASE function \in {"Mint", "Burn"} /\ Len(args) = 2 ->
            IF Atoi(args[2]).err # "nil" THEN {} ELSE {args[1]}
      [] function = "Transfer" /\ Len(args) = 3 ->
            IF Atoi(args[3]).err # "nil" THEN {}
            ELSE IF GetState(st, args[1]) = None THEN {args[1]}
            ELSE {args[1], args[2]}
      [] function = "BalanceOf" /\ Len(args) = 1 -> {args[1]}
      [] function = "Allowance" /\ Len(args) = 2 -> {allowancePrefix \o args[1] \o args[2]}
      [] function = "TransferFrom" /\ Len(args) = 4 ->
            LET allowanceKey == allowancePrefix \o args[1] \o args[2]
                amount == Atoi(args[4])
            IN IF amount.err # "nil" THEN {}
               ELSE IF GetState(st, allowanceKey) = None THEN {allowanceKey}
               ELSE IF AtoiIgnoreErr(GetState(st, allowanceKey)[1]) < amount.val
               THEN {allowanceKey}
               ELSE IF GetState(st, args[1]) = None THEN {allowanceKey, args[1]}
               ELSE {allowanceKey, args[1], args[3]}
      [] function = "TotalSupply" -> {totalSupplyKey}
      [] function = "Name" -> {nameKey}
      [] function = "Symbol" -> {symbolKey}
      [] OTHER -> {}

\* The keys an outcome writes.
WrittenKeys(out) == {out.writes[i][1] : i \in DOMAIN out.writes}

\* Amount arguments of the second invocation: "1", "5".
ConcurrentAmountArgs == {<<49>>, <<53>>}

\* The invocations run next to the one in flight, as <<function, args>>.
ConcurrentCalls ==
    {<<"Mint", <<a, m>>>> : a \in Addresses, m \in ConcurrentAmountArgs}
    \cup {<<"Burn", <<a, m>>>> : a \in Addresses, m \in ConcurrentAmountArgs}
    \cup {<<"Transfer", <<a, b, m>>>> :
             a \in Addresses, b \in Addresses, m \in ConcurrentAmountArgs}
    \cup {<<"Approve", <<a, b, m>>>> :
             a \in Addresses, b \in Addresses, m \in ConcurrentAmountArgs}
    \cup {<<"TransferFrom", <<a, b, a, m>>>> :
             a \in Addresses, b \in Addresses, m \in ConcurrentAmountArgs}
    \cup {<<"TransferFrom", <<a, a, b, m>>>> :
             a \in Addresses, b \in Addresses, m \in ConcurrentAmountArgs}

\* The identity that submits the invocations (the handlers of "peer" that
\* write never read it).
ConcurrentCaller == <<65>>

\* The invocations of the variant "peer" that write balances and allowances.
SnapMint ==
    /\ variant = "peer"
    /\ \E minter \in Addresses, amount \in ConcurrentAmountArgs :
          Exec(ConcurrentCaller, "Mint", <<minter, amount>>)

SnapBurn ==
    /\ variant = "peer"
    /\ \E minter \in Addresses, amount \in ConcurrentAmountArgs :
          Exec(ConcurrentCaller, "Burn", <<minter, amount>>)

SnapTransfer ==
    /\ variant = "peer"
    /\ \E from \in Addresses, to \in Addresses, amount \in ConcurrentAmountArgs :
          Exec(ConcurrentCaller, "Transfer", <<from, to, amount>>)

SnapApprove ==
    /\ variant = "peer"
    /\ \E owner \in Addresses, spender \in Addresses, amount \in ConcurrentAmountArgs :
          Exec(ConcurrentCaller, "Approve", <<owner, spender, amount>>)

SnapTransferFrom ==
    /\ variant = "peer"
    /\ \E owner \in Addresses, spender \in Addresses, to \in Addresses,
          amount \in ConcurrentAmountArgs :
          Exec(ConcurrentCaller, "TransferFrom", <<owner, spender, to, amount>>)

NextConcurrent ==
    \/ SnapMint \/ SnapBurn \/ SnapTransfer \/ SnapApprove \/ SnapTransferFrom \/ CommitTx

SpecConcurrent == Init /\ [][NextConcurrent]_vars

\* The second invocation read none of the keys the one in flight writes: the
\* host commits it after the first.
CommitsAfter(call) ==
    ReadSet_peer(store, call[1], call[2]) \cap WrittenKeys(tx.out) = {}

C31_AllowanceFrame ==
    tx # NoTx =>
        /\ \A owner \in KeyAddresses, spender \in KeyAddresses :
              (\/ tx.function \in {"Mint", "Burn", "Transfer"}
               \/ /\ tx.function \in {"Approve", "TransferFrom"}
                  /\ Len(tx.args) >= 2
                  /\ <<tx.args[1], tx.args[2]>> # <<owner, spender>>) =>
                 Allowance_peer(Post, <<owner, spender>>)
                    = Allowance_peer(store, <<owner, spender>>)
        /\ tx.function = "Approve" =>
              /\ \A account \in KeyAddresses \ {nameKey, totalSupplyKey} :
                    GetState(Post, account) = GetState(store, account)
              /\ \A key \in {nameKey, symbolKey, decimalsKey, totalSupplyKey} :
                    GetState(Post, key) = GetState(store, key)

\* C32: Burn, Transfer and TransferFrom treat a debited account with no
\* stored balance as holding 0: with amount 0 the invocation succeeds, with a
\* positive amount it fails for insufficient balance, never with an
\* account-not-found error.
C32_AbsentDebitedAccountIsZero ==
    LET debits == \/ Calls("Burn", 2) \/ Calls("Transfer", 3)
                  \/ /\ Calls("TransferFrom", 4)
                     /\ AllowanceAt(store, tx.args[1], tx.args[2])
                           >= Atoi(tx.args[Len(tx.args)]).val
                     /\ GetState(store, allowancePrefix \o tx.args[1] \o tx.args[2]) # None
        amount == Atoi(tx.args[Len(tx.args)])
    IN (/\ tx # NoTx
        /\ debits
        /\ amount.err = "nil"
        /\ amount.val >= 0
        /\ GetState(store, tx.args[1]) = None) =>
           /\ amount.val = 0 => tx.out.status = "OK"
           /\ amount.val > 0 =>
                 /\ tx.out.status = "ERROR"
                 /\ tx.out.message = "Insufficient balance"

(***************************************************************************)
(* A host whose SetEvent may fail: the invocations of "peer" and the Mint   *)
(* of "hex", each with and without the failure.                            *)
(***************************************************************************)
\* The error SetEvent hands to the handler.
SetEventError == "event could not be set"

FaultMint ==
    /\ variant = "peer"
    /\ \E minter \in Addresses, amount \in ConcurrentAmountArgs :
          ExecSetEventFails(ConcurrentCaller, "Mint", <<minter, amount>>, SetEventError)

FaultBurn ==
    /\ variant = "peer"
    /\ \E minter \in Addresses, amount \in ConcurrentAmountArgs :
          ExecSetEventFails(ConcurrentCaller, "Burn", <<minter, amount>>, SetEventError)

FaultTransfer ==
    /\ variant = "peer"
    /\ \E from \in Addresses, to \in Addresses, amount \in ConcurrentAmountArgs :
          ExecSetEventFails(ConcurrentCaller, "Transfer", <<from, to, amount>>,
                            SetEventError)

FaultTransferFrom ==
    /\ variant = "peer"
    /\ \E owner \in Addresses, spender \in Addresses, to \in Addresses,
          amount \in ConcurrentAmountArgs :
          ExecSetEventFails(ConcurrentCaller, "TransferFrom",
                            <<owner, spender, to, amount>>, SetEventError)

FaultHexMint ==
    /\ variant = "hex"
    /\ \E c \in Callers, amount \in TokenAmountArgs :
          ExecSetEventFails(c, "Mint", <<amount>>, SetEventError)

InitFault == \E v \in {"peer", "hex"} : InitOf(v)

NextFault ==
    \/ SnapMint \/ SnapBurn \/ SnapTransfer \/ SnapApprove \/ SnapTransferFrom
    \/ FaultMint \/ FaultBurn \/ FaultTransfer \/ FaultTransferFrom
    \/ HexInitialize \/ HexMint \/ FaultHexMint
    \/ CommitTx

SpecFault == InitFault /\ [][NextFault]_vars

\* C33: when attaching the Transfer event fails in Mint, Burn, Transfer or
\* TransferFrom, the invocation returns a failure and, the host committing
\* all or nothing, none of its balance or allowance writes is visible
\* afterwards.
C33_EventFailureFailsInvocation ==
    (/\ tx # NoTx
     /\ tx.setEventErr # "nil"
     /\ Invoke(variant, store, tx.caller, tx.function, tx.args).event # None) =>
        /\ tx.out.status = "ERROR"
        /\ tx.out.event = None
        /\ Post = store

\* A TransferFrom that passed every check and issued its three writes before
\* SetEvent failed.
C33_Witness ==
    /\ tx # NoTx
    /\ tx.setEventErr # "nil"
    /\ tx.function = "TransferFrom"
    /\ Len(tx.out.writes) = 3
    /\ ApplyWrites(store, tx.out.writes) # store
    /\ Post = store

(***************************************************************************)
(* Dispatch by operation name, in the four variants.                       *)
(***************************************************************************)
\* The case labels of the variant's switch on the function name.
DispatchTable(v) ==
    CASE v = "peer" -> {"Mint", "Burn", "Transfer", "BalanceOf", "ClientAccountBalance",
                        "ClientAccountID", "TotalSupply", "Approve", "Allowance",
                        "TransferFrom", "Name", "Symbol", "Initialize"}
      [] v = "sc" -> {"Initialize", "Mint", "Burn", "Transfer", "BalanceOf",
                      "ClientAccountBalance", "ClientAccountID", "TotalSupply",
                      "Approve", "Allowance", "TransferFrom"}
      [] v \in {"hex", "raw"} -> {"Initialize", "Mint", "ClientAccountBalance",
                                  "ClientAccountID", "transfer", "balanceOf", "name",
                                  "symbol", "totalSupply"}

\* Function names a client may send: labels of one variant that another
\* lacks, a label in another case, and the empty name.
CalledNames == {"Transfer", "transfer", "Name", "name", "Burn", "mint", ""}

\* Argument lists sent with them.
CalledArgs == {<<>>, <<<<65>>>>, <<<<65>>, <<49>>>>, <<<<65>>, <<182>>, <<49>>>>}

AnyCall ==
    /\ variant \in {"peer", "sc", "hex", "raw"}
    /\ \E c \in Callers, function \in CalledNames, args \in CalledArgs :
          Exec(c, function, args)

InitDispatch == \E v \in {"peer", "sc", "hex", "raw"} : InitOf(v)

NextDispatch ==
    \/ AnyCall \/ SnapMint \/ SnapApprove \/ ScMint \/ HexInitialize \/ RawInitialize
    \/ CommitTx

SpecDispatch == InitDispatch /\ [][NextDispatch]_vars

\* C34: an invocation whose operation name is not in the variant's dispatch
\* table returns the failure "Invalid function name", issues no state write
\* and records no event.
C34_UnknownFunctionRejected ==
    (tx # NoTx /\ tx.function \notin DispatchTable(variant)) =>
        /\ tx.out.status = "ERROR"
        /\ tx.out.message = "Invalid function name"
        /\ tx.out.writes = <<>>
        /\ tx.out.event = None
        /\ Post = store

\* "transfer" sent to the variant "peer", whose label is "Transfer", with
\* arguments the handler of "Transfer" would accept, on a ledger where the
\* sender holds a balance.
C34_Witness ==
    /\ variant = "peer"
    /\ tx.function = "transfer"
    /\ Len(tx.args) = 3
    /\ Transfer_peer(store, tx.args).status = "OK"
    /\ tx.out.status = "ERROR"

\* C35: a successful Transfer whose sender and recipient are the same
\* address, and a successful TransferFrom whose owner and recipient are the
\* same address, leave that address's balance unchanged, and with it the sum
\* of all balances. Stated for the amounts a transfer is meant for, those
\* that are not negative.
C35_SelfTransferKeepsBalance ==
    LET self == \/ Calls("Transfer", 3) /\ tx.args[1] = tx.args[2]
                \/ Calls("TransferFrom", 4) /\ TfOwner = TfTo
        account == IF tx.function = "Transfer" THEN tx.args[1] ELSE TfOwner
    IN (/\ tx # NoTx
        /\ self
        /\ tx.out.status = "OK"
        /\ Atoi(tx.args[Len(tx.args)]).val >= 0) =>
          /\ BalanceAt(Post, account) = BalanceAt(store, account)
          /\ SumOfBalances(Post) = SumOfBalances(store)

\* C36: the queries BalanceOf, ClientAccountBalance, ClientAccountID,
\* Allowance, Name, Symbol and TotalSupply issue no state write and record no
\* event: the stored state after a query is the stored state before it,
\* whether the query succeeds or fails.
C36_QueriesWriteNothing ==
    (tx # NoTx /\ tx.function \in HexQueries) =>
        /\ tx.out.writes = <<>>
        /\ tx.out.event = None
        /\ Post = store

\* C37: before the first successful Initialize every Mint and every Transfer
\* invocation fails and leaves the store without any balance entry; no
\* balance exists in a state in which the token metadata does not exist.
C37_NoBalanceBeforeInitialize ==
    ~Initialized(store) =>
        /\ DOMAIN store \cap Addresses = {}
        /\ (tx # NoTx /\ tx.function \in {"Mint", "Transfer"}) =>
              /\ tx.out.status = "ERROR"
              /\ DOMAIN Post \cap Addresses = {}

(***************************************************************************)
(* The variants "hex" and "raw" side by side: store is the pair of their   *)
(* ledgers, tx.out the pair of their responses to the same invocation, the *)
(* addresses in the arguments sent to "hex" being the hex encodings of     *)
(* those sent to "raw".                                                    *)
(***************************************************************************)
ExecBoth(caller, function, argsHex, argsRaw) ==
    /\ tx = NoTx
    /\ nops < MaxOps
    /\ tx' = [function |-> function, args |-> argsRaw, caller |-> caller,
              out |-> <<Invoke_hex(store[1], caller, function, argsHex),
                        Invoke_raw(store[2], caller, function, argsRaw)>>,
              setEventErr |-> "nil"]
    /\ UNCHANGED <<variant, store, nops>>

\* The pair of ledgers the invocation in flight leaves behind.
PostBoth == <<Commit(store[1], tx.out[1]), Commit(store[2], tx.out[2])>>

CommitBoth ==
    /\ tx # NoTx
    /\ store' = PostBoth
    /\ tx' = NoTx
    /\ nops' = nops + 1
    /\ UNCHANGED variant

BothInitialize ==
    /\ variant = "hex+raw"
    /\ \E c \in Callers, totalSupply \in SupplyArgs, decimals \in DecimalsArgs :
          ExecBoth(c, "Initialize", <<TokenName, TokenSymbol, totalSupply, decimals>>,
                   <<TokenName, TokenSymbol, totalSupply, decimals>>)

BothMint ==
    /\ variant = "hex+raw"
    /\ \E c \in Callers, amount \in TokenAmountArgs :
          ExecBoth(c, "Mint", <<amount>>, <<amount>>)

BothTransfer ==
    /\ variant = "hex+raw"
    /\ \E c \in Callers, to \in Callers, amount \in TokenAmountArgs :
          ExecBoth(c, "transfer", <<HexEncode(to), amount>>, <<to, amount>>)

BothBalanceOf ==
    /\ variant = "hex+raw"
    /\ \E c \in Callers, address \in Callers :
          ExecBoth(c, "balanceOf", <<HexEncode(address)>>, <<address>>)

BothQuery ==
    /\ variant = "hex+raw"
    /\ \E c \in Callers,
          function \in {"ClientAccountBalance", "name", "symbol", "totalSupply"} :
          ExecBoth(c, function, <<>>, <<>>)

InitBoth ==
    /\ variant = "hex+raw"
    /\ store = <<EmptyStore, EmptyStore>>
    /\ tx = NoTx
    /\ nops = 0

NextBoth ==
    \/ BothInitialize \/ BothMint \/ BothTransfer \/ BothBalanceOf \/ BothQuery
    \/ CommitBoth

SpecBoth == InitBoth /\ [][NextBoth]_vars

\* The balance map of a ledger of "hex" or "raw", empty before Initialize.
BalancesOf(st) == IF tokenKey \in DOMAIN st THEN TokenBalances(st) ELSE EmptyStore

\* The ledgers h of "hex" and r of "raw" hold the same total supply and the
\* same balances, the account keys of r read through hex encoding.
LedgersAgree(h, r) ==
    /\ (tokenKey \in DOMAIN h) = (tokenKey \in DOMAIN r)
    /\ tokenKey \in DOMAIN h => TokenTotal(h) = TokenTotal(r)
    /\ \A k \in DOMAIN BalancesOf(r) \cup Callers :
          MapGet(BalancesOf(h), HexEncode(k)) = MapGet(BalancesOf(r), k)
    /\ \A k \in DOMAIN BalancesOf(h) :
          \/ BalancesOf(h)[k] = 0
          \/ \E j \in DOMAIN BalancesOf(r) \cup Callers : k = HexEncode(j)

\* C38: the variants "hex" and "raw", run side by side on the same sequence
\* of Initialize, Mint, transfer, balanceOf, ClientAccountBalance, name,
\* symbol and totalSupply invocations by the same callers, with recipient and
\* queried addresses mapped through hex encoding, return the same status at
\* every step and keep total supply and balances equal under the hex mapping
\* of the account keys.
C38_HexAndRawAgree ==
    tx # NoTx =>
        /\ tx.out[1].status = tx.out[2].status
        /\ LedgersAgree(PostBoth[1], PostBoth[2])

====
